---- MODULE Spec2Model ----
(***************************************************************************)
(* Model of dependency-retriever/main.py: one execution of the script.     *)
(* A Storage is opened on a database file, a Crawler walks the paginated   *)
(* listing page by page (fetch, parse each Box-row into a Repository,      *)
(* insert it, follow the Next link), sleeps between pages and closes the   *)
(* Storage when the cursor is no longer a string.                          *)
(*                                                                         *)
(* The remote site and the database file are the environment: every fetch  *)
(* draws its outcome from a bounded set of responses, and the file the     *)
(* script opens may or may not hold the table of an earlier execution.     *)
(* An uncaught Python exception ends the process: pc = "failed".           *)
(***************************************************************************)
EXTENDS Integers, Sequences, FiniteSets, TLC

\* ---- bounds of the model ----
MaxRows == 2      \* Box-rows on one page
MaxFetches == 2   \* pages requested in one execution
MaxPrior == 1     \* rows left in the file by an earlier execution

\* ---- values ----
None == "<None>"                      \* Python's None

InitialUrl == "https://h/p1"          \* the url of __main__
AbsoluteUrls == {"https://h/p1", "https://h/p2"}
Hrefs == {"https://h/p2", "/p2"}      \* an absolute and a relative target

Digits == {"0", "1", "2", "3", "4", "5", "6", "7", "8", "9"}

DigitVal(c) ==
    CASE c = "0" -> 0 [] c = "1" -> 1 [] c = "2" -> 2 [] c = "3" -> 3
      [] c = "4" -> 4 [] c = "5" -> 5 [] c = "6" -> 6 [] c = "7" -> 7
      [] c = "8" -> 8 [] c = "9" -> 9

\* str.strip(): leading and trailing blanks removed
RECURSIVE LStrip(_)
LStrip(s) == IF s # <<>> /\ Head(s) = " " THEN LStrip(Tail(s)) ELSE s

RECURSIVE RStrip(_)
RStrip(s) ==
    IF s # <<>> /\ s[Len(s)] = " " THEN RStrip(SubSeq(s, 1, Len(s) - 1)) ELSE s

Strip(s) == RStrip(LStrip(s))

\* locale.delocalize under en_US: every thousands separator is dropped
RECURSIVE Delocalize(_)
Delocalize(s) ==
    IF s = <<>> THEN <<>>
    ELSE IF Head(s) = "," THEN Delocalize(Tail(s))
    ELSE <<Head(s)>> \o Delocalize(Tail(s))

\* int(): blanks around the digits are accepted, anything else is a ValueError
IntOk(s) == LET t == Strip(s) IN t # <<>> /\ \A k \in 1..Len(t) : t[k] \in Digits

RECURSIVE IntVal(_)
IntVal(t) ==
    IF t = <<>> THEN 0
    ELSE 10 * IntVal(SubSeq(t, 1, Len(t) - 1)) + DigitVal(t[Len(t)])

\* locale.atoi(text) = int(delocalize(text))
AtoiOk(s) == IntOk(Delocalize(s))
Atoi(s) == IntVal(Strip(Delocalize(s)))

\* ---- the listing pages the site can serve ----
T1234 == <<"1", ",", "2", "3", "4">>     \* "1,234"
T0 == <<"0">>                            \* "0"
T7 == <<" ", "7", " ">>                  \* " 7 "
T1k == <<"1", "k">>                      \* "1k"

\* A Box-row: whether it has the "f5 color-fg-muted" block, the texts of the
\* organization, user and repository links in it (None: no such link) and
\* the texts of its "color-fg-muted text-bold pl-3" badges.
RowOrg == [meta |-> TRUE, org |-> "org1", user |-> None, repo |-> "repoA",
           badges |-> <<T1234, T0>>]
RowUser == [meta |-> TRUE, org |-> None, user |-> "user1", repo |-> "repoB",
            badges |-> <<T7, T0>>]
RowBoth == [meta |-> TRUE, org |-> "org1", user |-> "user1", repo |-> "repoA",
            badges |-> <<T1234, T0>>]
RowNeither == [meta |-> TRUE, org |-> None, user |-> None, repo |-> "repoB",
               badges |-> <<T0, T0>>]
RowBadNum == [meta |-> TRUE, org |-> "org1", user |-> None, repo |-> "repoB",
              badges |-> <<T0, T1k>>]
RowOneBadge == [meta |-> TRUE, org |-> None, user |-> "user1", repo |-> "repoA",
                badges |-> <<T0>>]

Rows == {RowOrg, RowUser, RowBoth, RowNeither, RowBadNum, RowOneBadge}

SeqsUpTo(S, n) == UNION {[1..k -> S] : k \in 0..n}

\* The "Next" control found by soup.find: absent, an <a> without href, or
\* an <a> with one.
NoTag == [present |-> FALSE, has_href |-> FALSE, href |-> None]
TagNoHref == [present |-> TRUE, has_href |-> FALSE, href |-> None]
TagHref(h) == [present |-> TRUE, has_href |-> TRUE, href |-> h]
NextTags == {NoTag, TagNoHref} \cup {TagHref(h) : h \in Hrefs}

\* A response: its status class (2xx / anything else) and the parsed body.
\* The body of an error response is parsed like any other; the ones served
\* here hold at most one row.
OkResponses == [status : {"ok"}, rows : SeqsUpTo(Rows, MaxRows), next : NextTags]
BadResponses == [status : {"bad"}, rows : {<<>>} \cup {<<r>> : r \in Rows}, next : NextTags]
Responses == OkResponses \cup BadResponses
NoResponse == [status |-> "ok", rows |-> <<>>, next |-> NoTag]

\* ---- state ----
VARIABLES
    pc,         \* "start", "loop", "rows", "wait", "done", "failed"
    db,         \* the file: does the repositories table exist, its rows
    url,        \* Crawler._url
    parseUrl,   \* the url argument of the running _parse call
    soup,       \* the response being parsed
    i,          \* position of the for loop in soup.find_all("Box-row")
    fault,      \* the uncaught exception, or "none"
    closed,     \* number of Storage.close calls
    nfetch,     \* requests.get calls made
    nsleep,     \* time.sleep calls made
    nrows,      \* Box-rows in the responses received
    expected,   \* the tuples of the rows of the well-formed pages received
    allOk,      \* every response so far: success status, well-formed rows
    badStatus   \* some response so far had a non-success status

hist == <<nrows, expected, allOk, badStatus>>
vars == <<pc, db, url, parseUrl, soup, i, fault, closed, nfetch, nsleep, hist>>

\* ---- Repository ----
Repository(a, n, s, f) == [authority |-> a, name |-> n, num_stars |-> s, num_forks |-> f]

ToTuple(repo) == <<repo.authority, repo.name, repo.num_stars, repo.num_forks>>

\* ---- Crawler helpers ----
Crawlable(u) == u # None

\* the assert of _authority compiled away
AuthorityOkNoAssert(org_tag, user_tag) == TRUE

AuthorityOk(org_tag, user_tag) == org_tag # None \/ user_tag # None

\* the user link looked at first
AuthorityUserFirst(org_tag, user_tag) ==
    IF user_tag # None THEN user_tag ELSE org_tag

Authority(org_tag, user_tag) ==
    IF org_tag # None THEN org_tag ELSE user_tag

\* The exception a row raises in the body of the for loop, before the
\* store call, or "none".
RowFault(row) ==
    IF ~row.meta THEN "AttributeError"
    ELSE IF ~AuthorityOk(row.org, row.user) THEN "AssertionError"
    ELSE IF row.repo = None THEN "AttributeError"
    ELSE IF Len(row.badges) # 2 THEN "ValueError"
    ELSE IF ~AtoiOk(Strip(row.badges[1])) THEN "ValueError"
    ELSE IF ~AtoiOk(Strip(row.badges[2])) THEN "ValueError"
    ELSE "none"

\* The Repository built from a row that raises nothing.
RowRepository(row) ==
    Repository(Authority(row.org, row.user), row.repo,
               Atoi(Strip(row.badges[1])), Atoi(Strip(row.badges[2])))

HasHref(next_tag) == next_tag.present /\ next_tag.has_href

\* the cursor left as it is when there is no usable Next
AfterCrawlUrlStale(next_tag) ==
    IF ~next_tag.present \/ ~next_tag.has_href THEN url ELSE next_tag.href

\* a relative target resolved against the site before it is kept
AfterCrawlUrlJoined(next_tag) ==
    IF ~next_tag.present \/ ~next_tag.has_href THEN None
    ELSE IF next_tag.href \in AbsoluteUrls THEN next_tag.href
    ELSE "https://h/p2"

\* The value _after_crawl assigns to self._url.
AfterCrawlUrl(next_tag) ==
    IF ~next_tag.present \/ ~next_tag.has_href THEN None ELSE next_tag.href

\* the new row put before the others
InsertFirst(table, tuple) == <<tuple>> \o table

\* a row equal to a stored one not added again
InsertUnique(table, tuple) ==
    IF \E k \in 1..Len(table) : table[k] = tuple THEN table ELSE Append(table, tuple)

\* insert into repositories values (?, ?, ?, ?)
Insert(table, tuple) == Append(table, tuple)

\* ---- what the rows of a page should leave in the table ----
WellFormedRows(rows) == \A k \in 1..Len(rows) : RowFault(rows[k]) = "none"

RECURSIVE PageTuples(_)
PageTuples(rows) ==
    IF rows = <<>> THEN <<>>
    ELSE <<ToTuple(RowRepository(Head(rows)))>> \o PageTuples(Tail(rows))

\* ---- the database file before the script starts ----
PriorTuples == {ToTuple(RowRepository(RowOrg)), ToTuple(RowRepository(RowUser))}
NoTable == [exists |-> FALSE, rows |-> <<>>]
PriorDbs == {NoTable} \cup
            {[exists |-> TRUE, rows |-> r] : r \in SeqsUpTo(PriorTuples, MaxPrior)}

Init ==
    /\ pc = "start"
    /\ db \in PriorDbs
    /\ url = InitialUrl
    /\ parseUrl = None
    /\ soup = NoResponse
    /\ i = 1
    /\ fault = "none"
    /\ closed = 0
    /\ nfetch = 0
    /\ nsleep = 0
    /\ nrows = 0
    /\ expected = <<>>
    /\ allOk = TRUE
    /\ badStatus = FALSE

\* the exception swallowed and the loop carried on
RaiseCaught(e) == pc' = "wait" /\ fault' = e

\* An exception nobody catches ends the process.
Raise(e) == pc' = "failed" /\ fault' = e

\* Storage(path="sample.db"); Crawler(url, 5, storage): create table fails
\* when the table is already there.
StorageInit ==
    /\ pc = "start"
    /\ IF db.exists
       THEN /\ Raise("OperationalError")
            /\ UNCHANGED db
       ELSE /\ db' = [exists |-> TRUE, rows |-> <<>>]
            /\ pc' = "loop"
            /\ UNCHANGED fault
    /\ UNCHANGED <<url, parseUrl, soup, i, closed, nfetch, nsleep, hist>>

\* while self._crawlable(): self._parse(self._url), up to the for loop.
\* requests.get raises for a URL without scheme and for a connection
\* failure; any response, whatever its status, is parsed.
Fetch ==
    /\ pc = "loop"
    /\ Crawlable(url)
    /\ nfetch < MaxFetches
    /\ nfetch' = nfetch + 1
    /\ parseUrl' = url
    /\ \/ /\ url \notin AbsoluteUrls
          /\ Raise("MissingSchema")
          /\ UNCHANGED <<soup, i, hist>>
       \/ /\ url \in AbsoluteUrls
          /\ Raise("ConnectionError")
          /\ UNCHANGED <<soup, i, hist>>
       \/ /\ url \in AbsoluteUrls
          /\ \E r \in Responses :
                /\ soup' = r
                /\ nrows' = nrows + Len(r.rows)
                /\ expected' = IF WellFormedRows(r.rows)
                                THEN expected \o PageTuples(r.rows)
                                ELSE expected
                /\ allOk' = (allOk /\ r.status = "ok" /\ WellFormedRows(r.rows))
                /\ badStatus' = (badStatus \/ r.status = "bad")
          /\ i' = 1
          /\ pc' = "rows"
          /\ UNCHANGED fault
    /\ UNCHANGED <<db, url, closed, nsleep>>

\* One pass of the for loop body: extract the row, store it.
\* cursor.execute raises on a write fault and leaves the table as it was.
ParseRow ==
    /\ pc = "rows"
    /\ i <= Len(soup.rows)
    /\ LET row == soup.rows[i] IN
         IF RowFault(row) # "none"
         THEN /\ Raise(RowFault(row))
              /\ UNCHANGED <<db, i>>
         ELSE \/ /\ db' = [db EXCEPT !.rows = Insert(@, ToTuple(RowRepository(row)))]
                 /\ i' = i + 1
                 /\ UNCHANGED <<pc, fault>>
              \/ /\ Raise("PersistenceError")
                 /\ UNCHANGED <<db, i>>
    /\ UNCHANGED <<url, parseUrl, soup, closed, nfetch, nsleep, hist>>

\* End of the for loop: soup.find(... "Next") and _after_crawl.
AfterCrawl ==
    /\ pc = "rows"
    /\ i > Len(soup.rows)
    /\ url' = AfterCrawlUrl(soup.next)
    /\ pc' = "wait"
    /\ UNCHANGED <<db, parseUrl, soup, i, fault, closed, nfetch, nsleep, hist>>

\* the loop carried on without the sleep
WaitSkipped ==
    /\ pc = "wait"
    /\ pc' = "loop"
    /\ UNCHANGED <<db, url, parseUrl, soup, i, fault, closed, nfetch, nsleep, hist>>

\* self._wait(): a sleep of random.random() * interval seconds.
Wait ==
    /\ pc = "wait"
    /\ nsleep' = nsleep + 1
    /\ pc' = "loop"
    /\ UNCHANGED <<db, url, parseUrl, soup, i, fault, closed, nfetch, hist>>

\* The while condition is false: self._storage.close() and return.
CrawlExit ==
    /\ pc = "loop"
    /\ ~Crawlable(url)
    /\ closed' = closed + 1
    /\ pc' = "done"
    /\ UNCHANGED <<db, url, parseUrl, soup, i, fault, nfetch, nsleep, hist>>

Next == StorageInit \/ Fetch \/ ParseRow \/ AfterCrawl \/ Wait \/ CrawlExit

Spec == Init /\ [][Next]_vars

\* Once the rows of a page are stored the interpreter goes on: _after_crawl
\* runs, time.sleep returns, the while condition is evaluated. (requests.get
\* has no timeout and may never return: no fairness for Fetch.)
FairSpec == Spec /\ WF_vars(AfterCrawl) /\ WF_vars(Wait) /\ WF_vars(CrawlExit)

TypeOK ==
    /\ pc \in {"start", "loop", "rows", "wait", "done", "failed"}
    /\ url \in {None, InitialUrl} \cup Hrefs
    /\ soup \in Responses
    /\ i \in 1..(MaxRows + 1)
    /\ closed \in 0..1
    /\ nfetch \in 0..MaxFetches
    /\ nsleep \in 0..MaxFetches

AtEndOfPage == pc = "rows" /\ i > Len(soup.rows)
AtRow == pc = "rows" /\ i <= Len(soup.rows)
Halted == pc \in {"done", "failed"}

\* C1: when crawl returns after a chain of successfully fetched pages with
\* well-formed rows, linked by their Next references, the table holds one
\* row per listing row, in page order and document order, and the cursor is
\* None.
C1_CrawlStoresEveryRowInOrder ==
    (pc = "done" /\ allOk) =>
        /\ url = None
        /\ ~HasHref(soup.next)
        /\ Len(db.rows) = nrows
        /\ db.rows = expected

C1_Witness ==
    /\ pc = "done"
    /\ allOk
    /\ nfetch = 2
    /\ Len(soup.rows) = 1
    /\ nrows = 3
    /\ Len(db.rows) = 3

\* C2: at the end of a page without a Next control, or with one that has no
\* href, the cursor becomes None, the run then reaches done, and nothing is
\* fetched once the cursor is None.
C2_NoNextEndsTheLoop ==
    /\ [][(AtEndOfPage /\ ~HasHref(soup.next)) => url' = None]_vars
    /\ (AtEndOfPage /\ ~HasHref(soup.next)) ~> (pc = "done" /\ url = None)
    /\ [][url = None => nfetch' = nfetch]_vars

C2_Witness ==
    /\ pc = "done"
    /\ nfetch = 2
    /\ soup.next = TagNoHref

\* C3: a fetch that ends in a connection failure or in a response with a
\* non-success status halts the crawl: nothing of that response is stored,
\* the cursor keeps the fetched URL and done is not reached.
C3_FailedFetchHalts ==
    /\ fault = "ConnectionError" => (pc = "failed" /\ url = parseUrl /\ db.rows = expected)
    /\ badStatus => (pc = "failed" /\ url = parseUrl /\ closed = 0)

\* C4: opening the Storage on a file that already holds the repositories
\* table raises nothing and keeps the rows, so that the run goes on to
\* append after them.
C4_InitOnExistingTableSucceeds ==
    (pc # "start" /\ db.exists) => (fault # "OperationalError" /\ pc # "failed")

\* C5: a row with neither an organization nor a user link ends the run at
\* that row: nothing is stored for it or after it, nothing more is fetched,
\* and the rows stored before it stay as they are.
C5_RowWithoutAuthorityHalts ==
    /\ [][(AtRow /\ soup.rows[i].org = None /\ soup.rows[i].user = None)
            => (pc' = "failed" /\ fault' # "none" /\ db' = db /\ nfetch' = nfetch)]_vars
    /\ [](fault = "AssertionError" =>
            /\ pc = "failed"
            /\ soup.rows[i].org = None /\ soup.rows[i].user = None
            /\ db.rows = expected \o PageTuples(SubSeq(soup.rows, 1, i - 1)))
    /\ [][pc = "failed" => UNCHANGED vars]_vars

C5_Witness ==
    /\ pc = "failed"
    /\ fault = "AssertionError"
    /\ nfetch = 2
    /\ i = 2
    /\ Len(soup.rows) = 2
    /\ Len(expected) = 1
    /\ Len(db.rows) = 2

\* C6: close is called exactly when the loop ends with the cursor None, once,
\* and nothing is stored after it; an exception raised in an iteration is not
\* caught: the run is over, close is not called, nothing is stored or fetched.
C6_CloseOnlyOnDone ==
    /\ [](closed = (IF pc = "done" THEN 1 ELSE 0))
    /\ [](fault # "none" <=> pc = "failed")
    /\ [](pc = "done" => url = None)
    /\ [][closed' # closed => (url = None /\ db' = db)]_vars
    /\ [][Halted => UNCHANGED <<db, nfetch, nsleep, closed, url, pc>>]_vars

C6_Witness ==
    /\ pc = "done"
    /\ closed = 1
    /\ Len(db.rows) = 2
    /\ nfetch = 2

\* C7: a store call that returns (the for loop moves on) appends exactly one
\* row, the four field values of the record of the row being parsed, also
\* when an equal row is already stored; no other step changes the rows, and
\* the table is never dropped.
C7_StoreAppendsOneRow ==
    [][/\ (AtRow /\ i' # i) =>
             /\ Len(db'.rows) = Len(db.rows) + 1
             /\ SubSeq(db'.rows, 1, Len(db.rows)) = db.rows
             /\ LET repo == RowRepository(soup.rows[i])
                    new == db'.rows[Len(db'.rows)]
                IN /\ Len(new) = 4
                   /\ new[1] = repo.authority
                   /\ new[2] = repo.name
                   /\ new[3] = repo.num_stars
                   /\ new[4] = repo.num_forks
       /\ ~(AtRow /\ i' # i) => db'.rows = db.rows
       /\ db.exists => db'.exists]_vars

C7_Witness ==
    /\ Len(db.rows) = 2
    /\ db.rows[1] = db.rows[2]
    /\ pc = "rows"
    /\ nfetch = 1

\* C8: the authority of a stored record is the organization link's text when
\* the row has one, and the user link's text when it has a user link only.
C8_OrganizationBeforeUser ==
    [][(AtRow /\ db'.rows # db.rows) =>
          LET row == soup.rows[i]
              new == db'.rows[Len(db'.rows)]
          IN /\ row.org # None => new[1] = row.org
             /\ row.org = None => (row.user # None /\ new[1] = row.user)]_vars

C8_Witness ==
    /\ pc = "rows"
    /\ i = 2
    /\ soup.rows[1] = RowBoth
    /\ db.rows = <<<<"org1", "repoA", 1234, 0>>>>

====
